---- MODULE Spec2Model ----
(***************************************************************************)
(* Model of scripts/merge-pr.py: a one-shot script that composes a merge   *)
(* commit message from pull-request metadata and merges either through the *)
(* hosting API or through local git commands.                              *)
(*                                                                         *)
(* Text is modelled as sequences of one-character strings so that split,   *)
(* strip, startswith, replace and textwrap work on characters as the       *)
(* Python code does.  The modelled alphabet holds letters, digits, the     *)
(* blank, the backtick and the newline; tabs and hyphens (which textwrap   *)
(* treats specially) are outside it.                                       *)
(***************************************************************************)
EXTENDS Integers, Sequences, FiniteSets, TLC

(***************************************************************************)
(* Bounds of the model.                                                    *)
(***************************************************************************)
MaxLines == 3
MaxReviews == 3

\* wrap_text(text, width=72)
DefaultWidth == 72

(***************************************************************************)
(* Character-level helpers: the str methods the script uses.               *)
(***************************************************************************)
NL == "\n"
SP == " "
\* the backtick, written "^" because a TLA+ string cannot hold one
BT == "^"

Digits == {"0", "1", "2", "3", "4", "5", "6", "7", "8", "9"}

\* s[a..b] with Python's tolerance for empty ranges
Slice(s, a, b) == IF a > b THEN <<>> ELSE SubSeq(s, a, b)

RECURSIVE Concat(_)
\* "".join(parts)
Concat(parts) ==
    IF parts = <<>> THEN <<>> ELSE Head(parts) \o Concat(Tail(parts))

RECURSIVE Join(_, _)
\* sep.join(parts)
Join(parts, sep) ==
    IF parts = <<>> THEN <<>>
    ELSE IF Len(parts) = 1 THEN parts[1]
    ELSE parts[1] \o sep \o Join(Tail(parts), sep)

RECURSIVE SplitAcc(_, _, _)
SplitAcc(s, cur, acc) ==
    IF s = <<>> THEN Append(acc, cur)
    ELSE IF Head(s) = NL THEN SplitAcc(Tail(s), <<>>, Append(acc, cur))
    ELSE SplitAcc(Tail(s), Append(cur, Head(s)), acc)

\* text.split("\n"): always at least one line
SplitLines(text) == SplitAcc(text, <<>>, <<>>)

IsSpace(c) == c \in {SP, NL}

RECURSIVE LStrip(_)
LStrip(s) == IF s # <<>> /\ IsSpace(Head(s)) THEN LStrip(Tail(s)) ELSE s

RECURSIVE RStrip(_)
RStrip(s) ==
    IF s # <<>> /\ IsSpace(s[Len(s)]) THEN RStrip(Slice(s, 1, Len(s) - 1)) ELSE s

\* str.strip()
Strip(s) == RStrip(LStrip(s))

\* str.startswith(prefix)
StartsWith(s, prefix) ==
    Len(s) >= Len(prefix) /\ Slice(s, 1, Len(prefix)) = prefix

\* str.find(old) + 1: the position of the leftmost occurrence, 0 if none
Find(s, old) ==
    LET at == {i \in 1..(Len(s) - Len(old) + 1) :
                 SubSeq(s, i, i + Len(old) - 1) = old}
    IN  IF at = {} THEN 0 ELSE CHOOSE i \in at : \A k \in at : i <= k

RECURSIVE ReplaceAll(_, _, _)
\* str.replace(old, new) for a non-empty old: every non-overlapping
\* occurrence, scanning left to right
ReplaceAll(s, old, new) ==
    LET i == Find(s, old)
    IN  IF i = 0 THEN s
        ELSE Slice(s, 1, i - 1) \o new
             \o ReplaceAll(Slice(s, i + Len(old), Len(s)), old, new)

(***************************************************************************)
(* textwrap.wrap(line, width) with the TextWrapper defaults                *)
(* (break_long_words, drop_whitespace), as wrap_text calls it.             *)
(***************************************************************************)
AllSpace(chunk) == \A i \in 1..Len(chunk) : IsSpace(chunk[i])

RECURSIVE SplitChunksAcc(_, _, _)
SplitChunksAcc(s, cur, acc) ==
    IF s = <<>> THEN (IF cur = <<>> THEN acc ELSE Append(acc, cur))
    ELSE IF cur = <<>> \/ IsSpace(Head(s)) = IsSpace(cur[1])
         THEN SplitChunksAcc(Tail(s), Append(cur, Head(s)), acc)
         ELSE SplitChunksAcc(Tail(s), <<Head(s)>>, Append(acc, cur))

\* TextWrapper._split: maximal runs of whitespace and of non-whitespace
SplitChunks(s) == SplitChunksAcc(s, <<>>, <<>>)

RECURSIVE TakeFitting(_, _, _)
\* the inner "while chunks" loop: how many leading chunks fit on the line
TakeFitting(chunks, cur_len, width) ==
    IF chunks # <<>> /\ cur_len + Len(Head(chunks)) <= width
    THEN 1 + TakeFitting(Tail(chunks), cur_len + Len(Head(chunks)), width)
    ELSE 0

RECURSIVE WrapChunks(_, _, _)
\* TextWrapper._wrap_chunks
WrapChunks(chunks, lines, width) ==
    IF chunks = <<>> THEN lines
    ELSE
      LET c1   == IF AllSpace(Head(chunks)) /\ lines # <<>>
                  THEN Tail(chunks) ELSE chunks
          n    == TakeFitting(c1, 0, width)
          cur  == Slice(c1, 1, n)
          rest == Slice(c1, n + 1, Len(c1))
          cur_len == Len(Concat(cur))
          long == rest # <<>> /\ Len(Head(rest)) > width
          \* _handle_long_word with break_long_words
          space_left == width - cur_len
          cur2  == IF long
                   THEN Append(cur, Slice(Head(rest), 1, space_left))
                   ELSE cur
          rest2 == IF long
                   THEN <<Slice(Head(rest), space_left + 1, Len(Head(rest)))>>
                        \o Tail(rest)
                   ELSE rest
          cur3  == IF cur2 # <<>> /\ AllSpace(cur2[Len(cur2)])
                   THEN Slice(cur2, 1, Len(cur2) - 1) ELSE cur2
          lines2 == IF cur3 # <<>> THEN Append(lines, Concat(cur3)) ELSE lines
      IN WrapChunks(rest2, lines2, width)

\* textwrap.wrap(line, width=width)
TextWrap(line, width) == WrapChunks(SplitChunks(line), <<>>, width)

(***************************************************************************)
(* wrap_text (lines 80-92).  WrapStep is one iteration of the for loop on   *)
(* the pair (in_code_block, wrapped_lines).                                *)
(***************************************************************************)
FENCE == <<BT, BT, BT>>

\* line.strip().startswith(FENCE)
IsFence(line) == StartsWith(Strip(line), FENCE)

\* a loop body whose fence lines do not toggle the flag
WrapStepNoToggle(in_cb, acc, line, w) ==
    IF IsFence(line) \/ in_cb
    THEN [in_code_block |-> in_cb, wrapped_lines |-> Append(acc, line)]
    ELSE [in_code_block |-> in_cb, wrapped_lines |-> acc \o TextWrap(line, w)]

WrapStep(in_cb, acc, line, w) ==
    IF IsFence(line)
    THEN [in_code_block |-> ~in_cb, wrapped_lines |-> Append(acc, line)]
    ELSE IF in_cb
    THEN [in_code_block |-> in_cb, wrapped_lines |-> Append(acc, line)]
    ELSE [in_code_block |-> in_cb, wrapped_lines |-> acc \o TextWrap(line, w)]

RECURSIVE WrapLoop(_, _, _, _)
WrapLoop(ls, in_cb, acc, w) ==
    IF ls = <<>> THEN acc
    ELSE LET st == WrapStep(in_cb, acc, Head(ls), w)
         IN WrapLoop(Tail(ls), st.in_code_block, st.wrapped_lines, w)

\* wrap_text(text, width) as one call
wrap_text(t, w) == Join(WrapLoop(SplitLines(t), FALSE, <<>>, w), <<NL>>)

(***************************************************************************)
(* State.                                                                  *)
(***************************************************************************)
VARIABLES
    pc,             \* position of the run
    argv,           \* sys.argv, argv[1] being the program name
    env_repository, \* whether GITHUB_REPOSITORY is set
    user_mapping,   \* the module-level user_mapping (line 36)
    exit_code,      \* <<>> while running, then <<the process exit code>>
    out,            \* what the run printed, in order
    pr_number,      \* merge_pr's parameters
    use_api,
    pr,             \* the pull request as the platform returned it
    review_i,       \* get_pr_info: index of the next review
    reviewed_by,
    pr_info,
    commit_title,
    commit_message,
    approver_i,     \* merge_pr: index of the next approver
    api_commit_message, \* the commit_message argument built on line 133
    api_calls,      \* platform calls made, in order
    user_calls,     \* number of g.get_user calls
    merge_calls,    \* arguments of every pr.merge call
    temp_file,      \* the temporary commit-message file on disk
    commands,       \* commands given to run_command, with their return codes
    text,           \* wrap_text's frame
    width,
    lines,
    line_i,
    in_code_block,
    wrapped_lines,
    wrapped         \* wrap_text's return value

runVars == <<argv, env_repository, user_mapping, exit_code, out, pr_number,
             use_api, pr, review_i, reviewed_by, pr_info, commit_title,
             commit_message, approver_i, api_commit_message, api_calls,
             user_calls, merge_calls, temp_file, commands>>

wrapVars == <<text, width, lines, line_i, in_code_block, wrapped_lines, wrapped>>

vars == <<pc, runVars, wrapVars>>

(***************************************************************************)
(* Literal text of the script.                                             *)
(***************************************************************************)
PROG == <<"p">>
LOCAL_FLAG == <<"-", "-", "l", "o", "c", "a", "l">>
TEMP_PATH == <<"/", "t">>

S_MERGE == <<"M", "e", "r", "g", "e", " ", "'">>
S_FROM == <<"'", " ", "f", "r", "o", "m", " ">>
S_REVIEWED_BY == <<"R", "e", "v", "i", "e", "w", "e", "d", "-", "b", "y", ":", " ">>
S_CLOSES == <<"C", "l", "o", "s", "e", "s", " ", "#">>
S_NOREPLY == <<"@", "u", "s", "e", "r", "s", ".", "n", "o", "r", "e", "p", "l", "y", ".", "g", "i", "t", "h", "u", "b", ".", "c", "o", "m">>
S_GIT_FETCH == <<"g", "i", "t", " ", "f", "e", "t", "c", "h", " ", "o", "r", "i", "g", "i", "n", " ", "p", "u", "l", "l", "/">>
S_HEAD == <<"/", "h", "e", "a", "d">>
S_GIT_CHECKOUT == <<"g", "i", "t", " ", "c", "h", "e", "c", "k", "o", "u", "t", " ", "m", "a", "i", "n">>
S_GIT_MERGE == <<"g", "i", "t", " ", "m", "e", "r", "g", "e", " ", "-", "-", "n", "o", "-", "f", "f", " ">>
S_DASH_F == <<" ", "-", "F", " ">>
S_GIT_PUSH == <<"g", "i", "t", " ", "p", "u", "s", "h">>

DigitChars == <<"0", "1", "2", "3", "4", "5", "6", "7", "8", "9">>

DigitVal(c) == (CHOOSE i \in 1..10 : DigitChars[i] = c) - 1

RECURSIVE IntToStr(_)
\* str(n) for n >= 0
IntToStr(n) ==
    IF n < 10 THEN <<DigitChars[n + 1]>>
    ELSE IntToStr(n \div 10) \o <<DigitChars[(n % 10) + 1]>>

RECURSIVE DigitsToInt(_, _)
DigitsToInt(s, acc) ==
    IF s = <<>> THEN acc ELSE DigitsToInt(Tail(s), 10 * acc + DigitVal(Head(s)))

\* int(s) for a string that passed the check of line 191
IntOf(s) == DigitsToInt(Strip(s), 0)

\* re.match(r"^\d+$", s): one or more digits; "$" also matches just before
\* a newline that ends the string
ReMatchDigits(s) ==
    LET core == IF s # <<>> /\ s[Len(s)] = NL
                THEN Slice(s, 1, Len(s) - 1) ELSE s
    IN  core # <<>> /\ \A i \in 1..Len(core) : core[i] \in Digits

Msg(m, a) == [msg |-> m, arg |-> a]

(***************************************************************************)
(* The environment: command lines, the user mapping file, the platform.    *)
(***************************************************************************)
Argvs ==
    { <<PROG>>,
      <<PROG, <<"1", "2">>>>, <<PROG, <<"0">>>>, <<PROG, <<"1", "2", "a">>>>,
      <<PROG, <<>>>>, <<PROG, <<"-", "3">>>>, <<PROG, <<"0", "\n">>>>,
      <<PROG, <<"1", "2">>, LOCAL_FLAG>>, <<PROG, <<"1", "2", "a">>, LOCAL_FLAG>>,
      <<PROG, <<"1", "2">>, <<"-", "x">>>>, <<PROG, <<"1", "2">>, LOCAL_FLAG, <<"x">>>> }

\* load_user_mapping (lines 29-36): no file gives the empty mapping
UserMappings ==
    { <<>>,
      [u \in {<<"b">>} |-> [name |-> <<"B", "o", "b", " ", "B">>, email |-> <<"b", "o", "b", "@", "x", ".", "c", "o", "m">>]] }

\* the reviews a listing is drawn from: two reviewers, approvals and other
\* states
Reviews ==
    { [login |-> <<"a">>, state |-> "APPROVED"],
      [login |-> <<"b">>, state |-> "APPROVED"],
      [login |-> <<"b">>, state |-> "CHANGES_REQUESTED"],
      [login |-> <<"a">>, state |-> "COMMENTED"] }

RECURSIVE SeqsUpTo(_, _)
\* the sequences over S of length at most n
SeqsUpTo(S, n) ==
    IF n = 0 THEN {<<>>}
    ELSE LET shorter == SeqsUpTo(S, n - 1)
         IN  shorter \cup {Append(q, x) : q \in shorter, x \in S}

ReviewLists == SeqsUpTo(Reviews, MaxReviews)

Titles == {<<"F", "i", "x">>}
\* pr.body as the platform gives it (<<>> would stand for None and for "")
Bodies == {<<" ", "S", "h", "o", "r", "t", " ", "f", "i", "x", ".", "\n">>}

\* the pull requests repo.get_pull(n) can return; number 0 never exists
PullRequests(n) ==
    IF n = 0 THEN {}
    ELSE [number : {n}, title : Titles, user_name : {<<>>, <<"A", "l">>},
          user_login : {<<"a", "l">>}, head_ref : {<<"f">>}, head_sha : {<<"c", "0">>},
          body : Bodies, reviews : ReviewLists, mergeable : BOOLEAN,
          mergeable_state : {<<"d", "i", "r", "t", "y">>}]

NoPr == [number |-> 0, title |-> <<>>, user_name |-> <<>>, user_login |-> <<>>,
         head_ref |-> <<>>, head_sha |-> <<>>, body |-> <<>>, reviews |-> <<>>,
         mergeable |-> FALSE, mergeable_state |-> <<>>]

\* what g.get_user(username) can do: raise, or return a profile whose name
\* and email may each be missing (<<>>)
Lookups ==
    { [ok |-> FALSE, name |-> <<>>, email |-> <<>>],
      [ok |-> TRUE, name |-> <<"A", "n", "n">>, email |-> <<>>],
      [ok |-> TRUE, name |-> <<>>, email |-> <<"a", "@", "y", ".", "o", "r", "g">>] }

\* what pr.merge can do: raise, or return a status
MergeResults ==
    [raised : {TRUE}, merged : {FALSE}, sha : {<<>>}, message : {<<>>}]
    \cup [raised : {FALSE}, merged : {TRUE}, sha : {<<"d", "1">>}, message : {<<>>}]
    \cup [raised : {FALSE}, merged : {FALSE}, sha : {<<>>}, message : {<<"n", "o">>}]

\* what run_command can do: the command ends with a return code, and the
\* decoding of its output as UTF-8 succeeds or raises
CommandResults == [returncode : {0, 1}, decoded : BOOLEAN]

(***************************************************************************)
(* How a run ends.                                                         *)
(***************************************************************************)
\* exit_code is <<>> while the run goes on and <<code>> once it has ended
Running == <<>>

\* sys.exit(code)
SysExit(code) == pc' = "exited" /\ exit_code' = <<code>>

\* an exception nothing catches: traceback, exit code 1
Uncaught == pc' = "raised" /\ exit_code' = <<1>>

\* the script runs off its end
Finish == pc' = "done" /\ exit_code' = <<0>>

Terminated == pc \in {"exited", "raised", "done"}

(***************************************************************************)
(* __main__ (lines 185-199).                                               *)
(***************************************************************************)
Main ==
    /\ pc = "main"
    /\ IF Len(argv) # 2
       THEN /\ out' = Append(out, Msg("usage", <<>>))
            /\ SysExit(1)
            /\ UNCHANGED <<pr_number, use_api>>
       ELSE IF ~ReMatchDigits(argv[2])
       THEN /\ out' = Append(out, Msg("not_positive_integer", <<>>))
            /\ SysExit(1)
            /\ UNCHANGED <<pr_number, use_api>>
       ELSE /\ pr_number' = argv[2]
            /\ use_api' = ~(Len(argv) = 3 /\ argv[3] = LOCAL_FLAG)
            /\ pc' = "merge_pr"
            /\ UNCHANGED <<out, exit_code>>
    /\ UNCHANGED <<argv, env_repository, user_mapping, pr, review_i,
                   reviewed_by, pr_info, commit_title, commit_message,
                   approver_i, api_commit_message, api_calls, user_calls,
                   merge_calls, temp_file, commands, wrapVars>>

(***************************************************************************)
(* merge_pr, lines 96-105: the client and the repository.                  *)
(***************************************************************************)
GetRepo ==
    /\ pc = "merge_pr"
    /\ IF ~env_repository
       THEN /\ out' = Append(out, Msg("repository_not_set", <<>>))
            /\ SysExit(1)
            /\ UNCHANGED api_calls
       ELSE /\ api_calls' = Append(api_calls, "get_repo")
            /\ \E ok \in BOOLEAN :
                 IF ok THEN pc' = "get_pr_info" /\ UNCHANGED exit_code
                 ELSE Uncaught
            /\ UNCHANGED out
    /\ UNCHANGED <<argv, env_repository, user_mapping, pr_number, use_api, pr,
                   review_i, reviewed_by, pr_info, commit_title,
                   commit_message, approver_i, api_commit_message,
                   user_calls, merge_calls, temp_file, commands, wrapVars>>

(***************************************************************************)
(* get_user_email (lines 39-53) on a username and on what g.get_user does. *)
(* The result says what is returned, how many platform calls were made,    *)
(* what was printed, and whether an exception leaves the function.         *)
(***************************************************************************)
Identity(name, email) == name \o <<" ", "<">> \o email \o <<">">>

\* a resolver without the try/except of lines 43-50
get_user_email_unguarded(username, lookup) ==
    IF username \in DOMAIN user_mapping
    THEN [value |-> Identity(user_mapping[username].name,
                             user_mapping[username].email),
          calls |-> 0, printed |-> <<>>, raised |-> FALSE]
    ELSE IF lookup.ok
    THEN [value |-> Identity(lookup.name, lookup.email),
          calls |-> 1, printed |-> <<>>, raised |-> FALSE]
    ELSE [value |-> <<>>, calls |-> 1, printed |-> <<>>, raised |-> TRUE]

get_user_email(username, lookup) ==
    IF username \in DOMAIN user_mapping
    THEN [value |-> Identity(user_mapping[username].name,
                             user_mapping[username].email),
          calls |-> 0, printed |-> <<>>, raised |-> FALSE]
    ELSE IF lookup.ok
    THEN LET name == IF lookup.name # <<>> THEN lookup.name ELSE username
         IN  [value |-> IF lookup.email # <<>>
                        THEN Identity(name, lookup.email)
                        ELSE name \o <<" ", "(", "@">> \o username \o <<")">>,
              calls |-> 1, printed |-> <<>>, raised |-> FALSE]
    ELSE [value |-> Identity(username, username \o S_NOREPLY),
          calls |-> 1,
          printed |-> <<Msg("error_fetching_email", username)>>,
          raised |-> FALSE]

(***************************************************************************)
(* get_pr_info (lines 56-77).                                              *)
(***************************************************************************)
GetPull ==
    /\ pc = "get_pr_info"
    /\ api_calls' = Append(api_calls, "get_pull")
    /\ \/ /\ \E p \in PullRequests(IntOf(pr_number)) : pr' = p
          /\ review_i' = 1
          /\ reviewed_by' = <<>>
          /\ pc' = "reviews"
          /\ UNCHANGED exit_code
       \/ /\ Uncaught
          /\ UNCHANGED <<pr, review_i, reviewed_by>>
    /\ UNCHANGED <<argv, env_repository, user_mapping, out, pr_number, use_api,
                   pr_info, commit_title, commit_message, approver_i,
                   api_commit_message, user_calls, merge_calls, temp_file,
                   commands, wrapVars>>

\* a filter that drops only the rejections
IsNotRejected(state) == state # "CHANGES_REQUESTED"

\* review.state == "APPROVED" (line 65)
IsApproved(state) == state = "APPROVED"

\* one iteration of "for review in reviews" (lines 64-67)
ReviewStep ==
    /\ pc = "reviews"
    /\ review_i <= Len(pr.reviews)
    /\ LET review == pr.reviews[review_i] IN
       IF IsApproved(review.state)
       THEN \E lookup \in Lookups :
              LET r == get_user_email(review.login, lookup) IN
              /\ user_calls' = user_calls + r.calls
              /\ out' = out \o r.printed
              /\ IF r.raised
                 THEN Uncaught /\ UNCHANGED <<reviewed_by, review_i>>
                 ELSE /\ reviewed_by' = Append(reviewed_by, r.value)
                      /\ review_i' = review_i + 1
                      /\ UNCHANGED <<pc, exit_code>>
       ELSE /\ review_i' = review_i + 1
            /\ UNCHANGED <<pc, exit_code, user_calls, out, reviewed_by>>
    /\ UNCHANGED <<argv, env_repository, user_mapping, pr_number, use_api, pr,
                   pr_info, commit_title, commit_message, approver_i,
                   api_commit_message, api_calls, merge_calls, temp_file,
                   commands, wrapVars>>

\* the dictionary get_pr_info returns (lines 69-77)
PrInfoOf(p, approvers) ==
    [number |-> p.number,
     title |-> p.title,
     author |-> IF p.user_name # <<>> THEN p.user_name ELSE p.user_login,
     head |-> p.head_ref,
     head_sha |-> p.head_sha,
     body |-> IF p.body # <<>> THEN Strip(p.body) ELSE <<>>,
     reviewed_by |-> approvers]

ReturnPrInfo ==
    /\ pc = "reviews"
    /\ review_i > Len(pr.reviews)
    /\ pr_info' = PrInfoOf(pr, reviewed_by)
    /\ pc' = "format"
    /\ UNCHANGED <<argv, env_repository, user_mapping, exit_code, out,
                   pr_number, use_api, pr, review_i, reviewed_by, commit_title,
                   commit_message, approver_i, api_commit_message, api_calls,
                   user_calls, merge_calls, temp_file, commands, wrapVars>>

(***************************************************************************)
(* merge_pr, lines 110-121: the commit message.                            *)
(***************************************************************************)
NoPrInfo == PrInfoOf(NoPr, <<>>)

\* lines 111-114
FormatMessage ==
    /\ pc = "format"
    /\ LET title == S_MERGE \o pr_info.title \o S_FROM \o pr_info.author
           commit_body == wrap_text(pr_info.body, DefaultWidth)
       IN  /\ commit_title' = title
           /\ commit_message' = title \o <<NL, NL>> \o commit_body \o <<NL>>
    /\ approver_i' = 1
    /\ pc' = "approvers"
    /\ UNCHANGED <<argv, env_repository, user_mapping, exit_code, out,
                   pr_number, use_api, pr, review_i, reviewed_by, pr_info,
                   api_commit_message, api_calls, user_calls, merge_calls,
                   temp_file, commands, wrapVars>>

\* one iteration of "for approver in pr_info['reviewed_by']" (lines 117-118)
AddReviewedBy ==
    /\ pc = "approvers"
    /\ approver_i <= Len(pr_info.reviewed_by)
    /\ commit_message' = commit_message \o <<NL>> \o S_REVIEWED_BY
                            \o pr_info.reviewed_by[approver_i]
    /\ approver_i' = approver_i + 1
    /\ UNCHANGED <<pc, argv, env_repository, user_mapping, exit_code, out,
                   pr_number, use_api, pr, review_i, reviewed_by, pr_info,
                   commit_title, api_commit_message, api_calls, user_calls,
                   merge_calls, temp_file, commands, wrapVars>>

\* line 121, then the choice of line 123
AddCloses ==
    /\ pc = "approvers"
    /\ approver_i > Len(pr_info.reviewed_by)
    /\ commit_message' = commit_message \o <<NL, NL>> \o S_CLOSES
                            \o IntToStr(pr_info.number)
    /\ pc' = IF use_api THEN "api" ELSE "local"
    /\ UNCHANGED <<argv, env_repository, user_mapping, exit_code, out,
                   pr_number, use_api, pr, review_i, reviewed_by, pr_info,
                   commit_title, approver_i, api_commit_message, api_calls,
                   user_calls, merge_calls, temp_file, commands, wrapVars>>

(***************************************************************************)
(* merge_pr, lines 123-146: the API strategy.  The whole try block is one  *)
(* step; "except Exception" catches what the block raises, SystemExit      *)
(* excepted.                                                               *)
(***************************************************************************)
\* the commit_message argument of pr.merge (line 133)
ApiCommitMessage(message, title) ==
    ReplaceAll(message, title \o <<NL, NL>>, <<>>)

ApiStrategy ==
    /\ pc = "api"
    /\ IF "pr_object" \notin DOMAIN pr_info
       THEN \* line 126 raises KeyError
            /\ out' = Append(out, Msg("error_merging_via_api", <<>>))
            /\ SysExit(1)
            /\ UNCHANGED <<merge_calls, api_calls>>
       ELSE IF ~pr.mergeable
       THEN /\ out' = Append(out, Msg("not_mergeable", pr.mergeable_state))
            /\ SysExit(1)
            /\ UNCHANGED <<merge_calls, api_calls>>
       ELSE /\ api_calls' = Append(api_calls, "merge")
            /\ merge_calls' = Append(merge_calls,
                 [commit_title |-> commit_title,
                  commit_message |-> ApiCommitMessage(commit_message,
                                                      commit_title),
                  merge_method |-> "merge"])
            /\ \E result \in MergeResults :
                 IF result.raised
                 THEN /\ out' = Append(out, Msg("error_merging_via_api", <<>>))
                      /\ SysExit(1)
                 ELSE IF result.merged
                 THEN /\ out' = out \o <<Msg("merged_via_api", pr_number),
                                         Msg("merge_commit_sha", result.sha),
                                         Msg("merge_commit_message",
                                             commit_message)>>
                      /\ Finish
                 ELSE /\ out' = out \o <<Msg("failed_to_merge", pr_number),
                                         Msg("message", result.message)>>
                      /\ SysExit(1)
    /\ UNCHANGED <<argv, env_repository, user_mapping, pr_number, use_api, pr,
                   review_i, reviewed_by, pr_info, commit_title,
                   commit_message, approver_i, api_commit_message, user_calls,
                   temp_file, commands, wrapVars>>

(***************************************************************************)
(* merge_pr, lines 148-182: the local strategy.                            *)
(***************************************************************************)
NoFile == [exists |-> FALSE, content |-> <<>>]

\* lines 150-152: NamedTemporaryFile(delete=False) creates the file, then
\* the message is written; both can raise, and the try block that holds the
\* cleanup starts only on line 154
TempOutcomes == {"written", "not_created", "write_failed"}

CreateTempFile ==
    /\ pc = "local"
    /\ \E outcome \in TempOutcomes :
         CASE outcome = "written" ->
                /\ temp_file' = [exists |-> TRUE, content |-> commit_message]
                /\ pc' = "fetch"
                /\ UNCHANGED exit_code
           [] outcome = "not_created" ->
                /\ Uncaught
                /\ UNCHANGED temp_file
           [] outcome = "write_failed" ->
                /\ temp_file' = [exists |-> TRUE, content |-> <<>>]
                /\ Uncaught
    /\ UNCHANGED <<argv, env_repository, user_mapping, out, pr_number, use_api,
                   pr, review_i, reviewed_by, pr_info, commit_title,
                   commit_message, approver_i, api_commit_message, api_calls,
                   user_calls, merge_calls, commands, wrapVars>>

\* run_command(cmd) without the check of its return code
RunGitUnchecked(cmd, result, errmsg, next) ==
    /\ commands' = Append(commands, [cmd |-> cmd, returncode |-> result.returncode])
    /\ IF ~result.decoded
       THEN /\ Uncaught
            /\ temp_file' = NoFile
            /\ UNCHANGED out
       ELSE next

\* run_command(cmd) followed by the check of its return code; the finally
\* block (line 182) runs whenever the try block is left
RunGit(cmd, result, errmsg, next) ==
    /\ commands' = Append(commands, [cmd |-> cmd, returncode |-> result.returncode])
    /\ IF ~result.decoded
       THEN /\ Uncaught
            /\ temp_file' = NoFile
            /\ UNCHANGED out
       ELSE IF result.returncode # 0
       THEN /\ out' = Append(out, Msg(errmsg, <<>>))
            /\ SysExit(1)
            /\ temp_file' = NoFile
       ELSE next

LocalUnchanged ==
    UNCHANGED <<argv, env_repository, user_mapping, pr_number, use_api, pr,
                review_i, reviewed_by, pr_info, commit_title, commit_message,
                approver_i, api_commit_message, api_calls, user_calls,
                merge_calls, wrapVars>>

\* lines 155-160
GitFetch ==
    /\ pc = "fetch"
    /\ \E result \in CommandResults :
         RunGit(S_GIT_FETCH \o pr_number \o S_HEAD, result, "error_fetching",
                pc' = "checkout" /\ UNCHANGED <<exit_code, out, temp_file>>)
    /\ LocalUnchanged

\* lines 162-167
GitCheckout ==
    /\ pc = "checkout"
    /\ \E result \in CommandResults :
         RunGit(S_GIT_CHECKOUT, result, "error_checking_out",
                pc' = "merge" /\ UNCHANGED <<exit_code, out, temp_file>>)
    /\ LocalUnchanged

\* lines 169-182
GitMerge ==
    /\ pc = "merge"
    /\ \E result \in CommandResults :
         RunGit(S_GIT_MERGE \o pr_info.head_sha \o S_DASH_F \o TEMP_PATH,
                result, "error_merging",
                /\ out' = out \o <<Msg("merged", <<>>),
                                   Msg("merge_commit_message", commit_message),
                                   Msg("push_note", <<>>)>>
                /\ temp_file' = NoFile
                /\ Finish)
    /\ LocalUnchanged

\* line 133 on its own: the argument expression of pr.merge applied to the
\* composed message
EvalApiCommitMessage ==
    /\ pc = "api"
    /\ api_commit_message' = ApiCommitMessage(commit_message, commit_title)
    /\ pc' = "api_message"
    /\ UNCHANGED <<argv, env_repository, user_mapping, exit_code, out,
                   pr_number, use_api, pr, review_i, reviewed_by, pr_info,
                   commit_title, commit_message, approver_i, api_calls,
                   user_calls, merge_calls, temp_file, commands, wrapVars>>

(***************************************************************************)
(* wrap_text (lines 80-92), statement by statement.                        *)
(***************************************************************************)
\* lines 81-83
WrapSplit ==
    /\ pc = "wrap_text"
    /\ lines' = SplitLines(text)
    /\ wrapped_lines' = <<>>
    /\ in_code_block' = FALSE
    /\ line_i' = 1
    /\ pc' = "wrap_loop"
    /\ UNCHANGED <<runVars, text, width, wrapped>>

\* one iteration of "for line in lines" (lines 84-91)
WrapLine ==
    /\ pc = "wrap_loop"
    /\ line_i <= Len(lines)
    /\ LET st == WrapStep(in_code_block, wrapped_lines, lines[line_i], width)
       IN  /\ in_code_block' = st.in_code_block
           /\ wrapped_lines' = st.wrapped_lines
    /\ line_i' = line_i + 1
    /\ UNCHANGED <<pc, runVars, text, width, lines, wrapped>>

\* line 92
WrapReturn ==
    /\ pc = "wrap_loop"
    /\ line_i > Len(lines)
    /\ wrapped' = Join(wrapped_lines, <<NL>>)
    /\ pc' = "wrap_done"
    /\ UNCHANGED <<runVars, text, width, lines, line_i, in_code_block,
                   wrapped_lines>>

(***************************************************************************)
(* Specifications.                                                         *)
(***************************************************************************)
RunIdle ==
    /\ argv = <<PROG>>
    /\ env_repository = TRUE
    /\ user_mapping = <<>>
    /\ exit_code = Running
    /\ out = <<>>
    /\ pr_number = <<>>
    /\ use_api = TRUE
    /\ pr = NoPr
    /\ review_i = 1
    /\ reviewed_by = <<>>
    /\ pr_info = NoPrInfo
    /\ commit_title = <<>>
    /\ commit_message = <<>>
    /\ approver_i = 1
    /\ api_commit_message = <<>>
    /\ api_calls = <<>>
    /\ user_calls = 0
    /\ merge_calls = <<>>
    /\ temp_file = NoFile
    /\ commands = <<>>

WrapIdle ==
    /\ text = <<>>
    /\ width = DefaultWidth
    /\ lines = <<>>
    /\ line_i = 1
    /\ in_code_block = FALSE
    /\ wrapped_lines = <<>>
    /\ wrapped = <<>>

\* The script run from the command line: the state when line 185 is reached.
Init ==
    /\ pc = "main"
    /\ argv \in Argvs
    /\ env_repository \in BOOLEAN
    /\ user_mapping \in UserMappings
    /\ exit_code = Running
    /\ out = <<>>
    /\ pr_number = <<>>
    /\ use_api = TRUE
    /\ pr = NoPr
    /\ review_i = 1
    /\ reviewed_by = <<>>
    /\ pr_info = NoPrInfo
    /\ commit_title = <<>>
    /\ commit_message = <<>>
    /\ approver_i = 1
    /\ api_commit_message = <<>>
    /\ api_calls = <<>>
    /\ user_calls = 0
    /\ merge_calls = <<>>
    /\ temp_file = NoFile
    /\ commands = <<>>
    /\ WrapIdle

Next ==
    \/ Main
    \/ GetRepo
    \/ GetPull
    \/ ReviewStep
    \/ ReturnPrInfo
    \/ FormatMessage
    \/ AddReviewedBy
    \/ AddCloses
    \/ ApiStrategy

Spec == Init /\ [][Next]_vars

\* merge_pr(pr_number, use_api) called with each strategy.
PrNumbers == {<<"1", "2">>}

InitMergePr ==
    /\ pc = "merge_pr"
    /\ argv = <<PROG>>
    /\ env_repository \in BOOLEAN
    /\ user_mapping \in UserMappings
    /\ exit_code = Running
    /\ out = <<>>
    /\ pr_number \in PrNumbers
    /\ use_api \in BOOLEAN
    /\ pr = NoPr
    /\ review_i = 1
    /\ reviewed_by = <<>>
    /\ pr_info = NoPrInfo
    /\ commit_title = <<>>
    /\ commit_message = <<>>
    /\ approver_i = 1
    /\ api_commit_message = <<>>
    /\ api_calls = <<>>
    /\ user_calls = 0
    /\ merge_calls = <<>>
    /\ temp_file = NoFile
    /\ commands = <<>>
    /\ WrapIdle

NextMergePr ==
    \/ GetRepo
    \/ GetPull
    \/ ReviewStep
    \/ ReturnPrInfo
    \/ FormatMessage
    \/ AddReviewedBy
    \/ AddCloses
    \/ ApiStrategy
    \/ CreateTempFile
    \/ GitFetch
    \/ GitCheckout
    \/ GitMerge

SpecMergePr == InitMergePr /\ [][NextMergePr]_vars

\* The message formatting of lines 110-121 and 133 on the values
\* get_pr_info can return.
FormatBodies ==
    {<<>>, <<"S", "h", "o", "r", "t", " ", "f", "i", "x", ".">>, <<"M", "e", "r", "g", "e", " ", "'", "F", "i", "x", "'", " ", "f", "r", "o", "m", " ", "a", "l">>, <<"S", "e", "e", "\n", "^", "^", "^", "\n", "x", "\n", "\n", "y", "\n", "^", "^", "^">>}

FormatIdentities == {<<"B", "o", "b", " ", "B", " ", "<", "b", "o", "b", "@", "x", ".", "c", "o", "m", ">">>, <<"a", " ", "(", "@", "a", ")">>}

PrInfos ==
    [number : {42, 7}, title : Titles, author : {<<"a", "l">>, <<"A", "l">>},
     head : {<<"f">>}, head_sha : {<<"c", "0">>}, body : FormatBodies,
     reviewed_by : SeqsUpTo(FormatIdentities, MaxReviews)]

InitFormat ==
    /\ pc = "format"
    /\ pr_info \in PrInfos
    /\ argv = <<PROG>>
    /\ env_repository = TRUE
    /\ user_mapping = <<>>
    /\ exit_code = Running
    /\ out = <<>>
    /\ pr_number = IntToStr(pr_info.number)
    /\ use_api = TRUE
    /\ pr = NoPr
    /\ review_i = 1
    /\ reviewed_by = pr_info.reviewed_by
    /\ commit_title = <<>>
    /\ commit_message = <<>>
    /\ approver_i = 1
    /\ api_commit_message = <<>>
    /\ api_calls = <<>>
    /\ user_calls = 0
    /\ merge_calls = <<>>
    /\ temp_file = NoFile
    /\ commands = <<>>
    /\ WrapIdle

NextFormat ==
    \/ FormatMessage
    \/ AddReviewedBy
    \/ AddCloses
    \/ EvalApiCommitMessage

SpecFormat == InitFormat /\ [][NextFormat]_vars

\* wrap_text(text, width) on sample texts.
SampleLines ==
    { <<>>, <<"a", "b", " ", "c", "d", " ", "e", "f">>, <<"a", "b", "c", "d", "e", "f", "g">>, <<" ", " ", "a", "b">>, FENCE, <<" ", "^", "^", "^", "p", "y", " ">>,
      <<"^", "^">>, <<"a", " ", "^", "^", "^", " ", "b">> }

WrapWidths == {3, 5}

InitWrap ==
    /\ pc = "wrap_text"
    /\ \E ls \in SeqsUpTo(SampleLines, MaxLines) :
         ls # <<>> /\ text = Join(ls, <<NL>>)
    /\ width \in WrapWidths
    /\ lines = <<>>
    /\ line_i = 1
    /\ in_code_block = FALSE
    /\ wrapped_lines = <<>>
    /\ wrapped = <<>>
    /\ RunIdle

NextWrap ==
    \/ WrapSplit
    \/ WrapLine
    \/ WrapReturn

SpecWrap == InitWrap /\ [][NextWrap]_vars

(***************************************************************************)
(* Properties of the command line (Spec).                                  *)
(***************************************************************************)
Printed(m) == \E i \in 1..Len(out) : out[i].msg = m

\* s is the decimal notation of a positive integer, as int() reads it
DenotesPositiveInteger(s) ==
    LET core == Strip(s)
    IN  /\ core # <<>>
        /\ \A i \in 1..Len(core) : core[i] \in Digits
        /\ DigitsToInt(core, 0) > 0

\* merge_pr was entered with the command line's pr_number
EnteredMergePr == pc \notin {"main"} /\ pr_number # <<>>

\* C1: "program <pr_number> --local" with a valid pr_number reaches merge_pr
\* with use_api = FALSE instead of exiting at argument validation, and
\* "program <pr_number>" reaches it with use_api = TRUE.
C1_LocalFlagSelectsLocal ==
    (pc # "main" /\ Len(argv) \in {2, 3} /\ DenotesPositiveInteger(argv[2])) =>
        /\ (Len(argv) = 3 /\ argv[3] = LOCAL_FLAG) =>
               (EnteredMergePr /\ use_api = FALSE /\ ~Printed("usage"))
        /\ Len(argv) = 2 => (EnteredMergePr /\ use_api = TRUE)

\* C6: a command line whose pr_number is not a positive integer, or whose
\* argument count is wrong, exits with code 1 before any network call or git
\* command; merge_pr is entered only with a positive integer.
C6_InvalidArgumentsExitEarly ==
    LET wrong_count == Len(argv) \notin {2, 3}
        bad == wrong_count \/ ~DenotesPositiveInteger(argv[2])
    IN  /\ (bad /\ pc # "main") =>
              /\ pc = "exited" /\ exit_code = <<1>>
              /\ api_calls = <<>> /\ commands = <<>>
        /\ EnteredMergePr => DenotesPositiveInteger(pr_number)

(***************************************************************************)
(* Properties of the API strategy (Spec).                                  *)
(***************************************************************************)
MetadataFetched == pr_info # NoPrInfo

\* C2: in the API strategy, when the metadata fetch succeeded and the pull
\* request is mergeable, the run calls the platform merge exactly once with
\* method "merge", the composed title and the composed body; when a merge is
\* reported the SHA and the message are printed and the exit code is zero.
C2_MergeableIsMergedOnce ==
    (Terminated /\ use_api /\ MetadataFetched /\ pr.mergeable) =>
        /\ Len(merge_calls) = 1
        /\ merge_calls[1].merge_method = "merge"
        /\ merge_calls[1].commit_title = commit_title
        /\ merge_calls[1].commit_message =
              Slice(commit_message, Len(commit_title) + 3, Len(commit_message))
        /\ Printed("merged_via_api") =>
              /\ Printed("merge_commit_sha")
              /\ Printed("merge_commit_message")
              /\ exit_code = <<0>>

\* C3: in the API strategy, when the pull request is not mergeable the run
\* reports the mergeable-state reason, exits non-zero, and never calls the
\* platform merge.
C3_NotMergeableIsReported ==
    (Terminated /\ use_api /\ MetadataFetched /\ ~pr.mergeable) =>
        /\ \E i \in 1..Len(out) :
              out[i] = Msg("not_mergeable", pr.mergeable_state)
        /\ exit_code # <<0>>
        /\ merge_calls = <<>>

\* the part of C3 that does not depend on the report: a run on a pull
\* request that is not mergeable exits non-zero without a merge call
NotMergeableNeverMerges ==
    (Terminated /\ use_api /\ MetadataFetched /\ ~pr.mergeable) =>
        (exit_code # <<0>> /\ merge_calls = <<>>)

(***************************************************************************)
(* Properties of the local strategy (SpecMergePr).                         *)
(***************************************************************************)
\* the part of C4 the finally block gives: once the try block of line 154
\* was entered, the file is gone when the process terminates
TempFileRemovedAfterTry ==
    (Terminated /\ commands # <<>>) => ~temp_file.exists

\* C4: the temporary file is created before any git command runs, and on
\* every exit path after its creation (success, a failing command, an
\* exception) it has been removed when the process terminates.
C4_TempFileAlwaysRemoved ==
    /\ (commands # <<>> /\ ~Terminated) => temp_file.exists
    /\ pc = "fetch" => (temp_file.exists /\ commands = <<>>)
    /\ Terminated => ~temp_file.exists

\* the three commands of the local strategy, in the order of the source
LocalCommands ==
    << S_GIT_FETCH \o pr_number \o S_HEAD,
       S_GIT_CHECKOUT,
       S_GIT_MERGE \o pr.head_sha \o S_DASH_F \o TEMP_PATH >>

\* C5: the git commands run in the order fetch, checkout, merge; the first
\* one that returns non-zero ends the run with exit code 1 and no later
\* command runs; the success report and the push reminder are printed only
\* when all three returned zero; no push command is ever run.
C5_LocalCommandOrder ==
    /\ Len(commands) <= 3
    /\ \A i \in 1..Len(commands) :
         /\ commands[i].cmd = LocalCommands[i]
         /\ i < Len(commands) => commands[i].returncode = 0
         /\ ~StartsWith(commands[i].cmd, S_GIT_PUSH)
    /\ (\E i \in 1..Len(commands) : commands[i].returncode # 0) =>
         (pc \in {"exited", "raised"} /\ exit_code = <<1>>)
    /\ (Printed("merged") \/ Printed("push_note")) =>
         /\ Len(commands) = 3
         /\ \A i \in 1..3 : commands[i].returncode = 0

\* all three commands ran in order, the merge failed, and the run ended with
\* exit code 1 and no report
C5_Witness ==
    /\ ~use_api
    /\ pc = "exited" /\ exit_code = <<1>>
    /\ Len(commands) = 3
    /\ commands[3].returncode = 1
    /\ Printed("error_merging")

(***************************************************************************)
(* Properties of the metadata fetch (Spec).                                *)
(***************************************************************************)
\* the strings get_user_email may return for a login: the mapped identity,
\* or else a profile identity, a "(@login)" form or the no-reply address
MappedIdentity(u) ==
    user_mapping[u].name \o <<" ", "<">> \o user_mapping[u].email \o <<">">>

NoReplyIdentity(u) == u \o <<" ", "<">> \o u \o S_NOREPLY \o <<">">>

ProfileIdentities(u) ==
    LET names == {u} \cup {l.name : l \in {k \in Lookups : k.name # <<>>}}
        emails == {l.email : l \in {k \in Lookups : k.email # <<>>}}
    IN  {n \o <<" ", "<">> \o e \o <<">">> : n \in names, e \in emails}
        \cup {n \o <<" ", "(", "@">> \o u \o <<")">> : n \in names}

ResolvedIdentities(u) ==
    IF u \in DOMAIN user_mapping THEN {MappedIdentity(u)}
    ELSE ProfileIdentities(u) \cup {NoReplyIdentity(u)}

RECURSIVE ApprovedOf(_)
\* the reviews whose state is exactly "APPROVED", in listing order
ApprovedOf(rs) ==
    IF rs = <<>> THEN <<>>
    ELSE IF Head(rs).state = "APPROVED"
         THEN <<Head(rs)>> \o ApprovedOf(Tail(rs))
         ELSE ApprovedOf(Tail(rs))

\* C7: reviewed_by, as get_pr_info returns it, holds exactly one resolved
\* identity per review whose state is exactly "APPROVED", in listing order,
\* without deduplication, and nothing for a review in another state.
C7_ReviewedByIsApprovals ==
    MetadataFetched =>
        LET approved == ApprovedOf(pr.reviews) IN
        /\ Len(pr_info.reviewed_by) = Len(approved)
        /\ \A i \in 1..Len(approved) :
             pr_info.reviewed_by[i] \in ResolvedIdentities(approved[i].login)

\* A approved, B requested changes, A approved again: two entries for A
C7_Witness ==
    /\ MetadataFetched
    /\ Len(pr.reviews) = 3
    /\ pr.reviews[1] = [login |-> <<"a">>, state |-> "APPROVED"]
    /\ pr.reviews[2] = [login |-> <<"b">>, state |-> "CHANGES_REQUESTED"]
    /\ pr.reviews[3] = [login |-> <<"a">>, state |-> "APPROVED"]
    /\ Len(pr_info.reviewed_by) = 2

\* C8: get_user_email never raises and always returns a string: a mapped
\* username gives "{name} <{email}>" with no platform call; otherwise one
\* profile query is made and the result is "{name} <{email}>" or
\* "{name} (@{username})", or, when the query fails (which is reported), the
\* no-reply address; the run continues in every case.
C8_ResolverNeverRaises ==
    [][ (pc = "reviews" /\ review_i <= Len(pr.reviews)
         /\ pr.reviews[review_i].state = "APPROVED") =>
          LET u == pr.reviews[review_i].login
              v == reviewed_by'[Len(reviewed_by')]
          IN  /\ pc' = "reviews" /\ exit_code' = Running
              /\ Len(reviewed_by') = Len(reviewed_by) + 1
              /\ IF u \in DOMAIN user_mapping
                 THEN /\ v = MappedIdentity(u)
                      /\ user_calls' = user_calls
                      /\ out' = out
                 ELSE /\ user_calls' = user_calls + 1
                      /\ IF out' # out
                         THEN /\ out' = Append(out, Msg("error_fetching_email", u))
                              /\ v = NoReplyIdentity(u)
                         ELSE v \in ProfileIdentities(u)
      ]_vars

\* a mapped reviewer resolved without a call, a failed lookup replaced by
\* the no-reply address, and the run went on to return the metadata
C8_Witness ==
    /\ MetadataFetched
    /\ user_mapping # <<>>
    /\ Len(pr_info.reviewed_by) = 2
    /\ pr_info.reviewed_by[1] = MappedIdentity(<<"b">>)
    /\ pr_info.reviewed_by[2] = NoReplyIdentity(<<"a">>)
    /\ user_calls = 1
    /\ Printed("error_fetching_email")

(***************************************************************************)
(* Properties of the commit message (SpecFormat).                          *)
(***************************************************************************)
RECURSIVE ReviewedByLines(_)
\* one "Reviewed-by: {identity}" line per identity, in order
ReviewedByLines(ids) ==
    IF ids = <<>> THEN <<>>
    ELSE <<S_REVIEWED_BY \o Head(ids)>> \o ReviewedByLines(Tail(ids))

\* what follows the title line and its blank line: the wrapped body, a blank
\* line, the Reviewed-by lines, a blank line, the Closes line
MessageTail(info) ==
    Join(<<wrap_text(info.body, DefaultWidth), <<>>>>
         \o ReviewedByLines(info.reviewed_by)
         \o << <<>>, S_CLOSES \o IntToStr(info.number) >>, <<NL>>)

MessageLayout(info) ==
    S_MERGE \o info.title \o S_FROM \o info.author \o <<NL, NL>>
    \o MessageTail(info)

\* the first half of C9 alone: the layout of the composed message
MessageHasLayout ==
    pc \in {"api", "api_message"} => commit_message = MessageLayout(pr_info)

\* C9: the composed message is the title line, a blank line, the wrapped
\* body, a blank line, one Reviewed-by line per reviewer in order, a blank
\* line and the Closes line; and the body passed to the API merge call is
\* that message with only the leading title line and its blank line removed.
C9_MessageAndApiBody ==
    pc = "api_message" =>
        /\ commit_message = MessageLayout(pr_info)
        /\ api_commit_message = MessageTail(pr_info)

(***************************************************************************)
(* Properties of wrap_text (SpecWrap).                                     *)
(***************************************************************************)
RECURSIVE FenceCount(_, _)
\* how many of the first k lines are fence lines
FenceCount(ls, k) ==
    IF k = 0 THEN 0
    ELSE FenceCount(ls, k - 1) + (IF IsFence(ls[k]) THEN 1 ELSE 0)

\* line k is read with the flag set
ReadInBlock(ls, k) == FenceCount(ls, k - 1) % 2 = 1

RECURSIVE EmittedFor(_, _, _)
\* what the first k lines must have produced
EmittedFor(ls, k, w) ==
    IF k = 0 THEN <<>>
    ELSE EmittedFor(ls, k - 1, w)
         \o (IF IsFence(ls[k]) \/ ReadInBlock(ls, k)
             THEN <<ls[k]>>
             ELSE TextWrap(ls[k], w))

\* C10: before each line the flag is the parity of the number of earlier
\* fence lines; fence lines and lines read with the flag set are emitted
\* unmodified and in order, also after an unterminated fence; only lines read
\* with the flag clear are wrapped, to the width limit.
C10_FencedLinesVerbatim ==
    pc \in {"wrap_loop", "wrap_done"} =>
        /\ in_code_block = ReadInBlock(lines, line_i)
        /\ wrapped_lines = EmittedFor(lines, line_i - 1, width)
        /\ \A k \in 1..(line_i - 1) :
             (~IsFence(lines[k]) /\ ~ReadInBlock(lines, k)) =>
                \A j \in 1..Len(TextWrap(lines[k], width)) :
                   Len(TextWrap(lines[k], width)[j]) <= width
        /\ pc = "wrap_done" => wrapped = Join(wrapped_lines, <<NL>>)

\* a wrapped line, a lone fence, and the same line left whole after it
C10_Witness ==
    /\ pc = "wrap_done"
    /\ width = 3
    /\ lines = <<<<"a", "b", " ", "c", "d", " ", "e", "f">>, FENCE, <<"a", "b", " ", "c", "d", " ", "e", "f">>>>
    /\ wrapped_lines = <<<<"a", "b">>, <<"c", "d">>, <<"e", "f">>, FENCE, <<"a", "b", " ", "c", "d", " ", "e", "f">>>>
    /\ in_code_block

====
